---- MODULE Spec2Model ----
(***************************************************************************)
(* Model of scripts/fetch_and_build.py: one batch run of main().           *)
(*                                                                         *)
(* Text is modelled as a sequence of one-character strings, so that        *)
(* str.strip, str.casefold, the substring test `x in y` and the ordering   *)
(* of strings by code point are computed, not assumed.  Python's None is   *)
(* the value None for text-valued fields and NoneNum for number-valued     *)
(* fields.                                                                 *)
(***************************************************************************)
EXTENDS Integers, Sequences, FiniteSets, TLC

VARIABLES
    env,                \* the process environment read by getenv
    cfg,                \* main: cfg
    pc,                 \* position of main()
    kw_index,           \* main: position of the outer loop in cfg["KEYWORDS"]
    page,               \* main: page of the inner loop
    total_for_kw,       \* main: total_for_kw
    requests,           \* the HTTP GETs issued so far, with their outcome
    all_raw,            \* main: all_raw
    seen_ids,           \* main: seen_ids
    per_keyword_count,  \* main: per_keyword_count
    kept,               \* main: kept
    excluded,           \* main: excluded
    fs,                 \* the directories and files written so far, in order
    output,             \* the document dumped to site/data/jobs.json
    first_seen,         \* history: per dedup key returned so far, the first
                        \* (keyword, record) returned with it, in fetch order
    probe               \* input and result of a function applied on its own

vars == <<env, cfg, pc, kw_index, page, total_for_kw, requests, all_raw,
          seen_ids, per_keyword_count, kept, excluded, fs, output, first_seen, probe>>

pipeline == <<env, cfg, pc, kw_index, page, total_for_kw, requests, all_raw,
              seen_ids, per_keyword_count, kept, excluded, fs, output, first_seen>>

----------------------------------------------------------------------------
(* Bounds of the model *)

MaxKeywords == 2
MaxPages == 2
MaxPageLen == 2
MaxSalary == 4
MaxKept == 3

----------------------------------------------------------------------------
(* Python values *)

None == <<"None">>
NoneNum == -1

\* bool(v) of a text-or-None value: None and "" are falsy
Truthy(v) == v # None /\ v # <<>>

\* The characters of the model in code point order: ' ' < 'A' < ... < 'a' < ...
Alphabet == <<" ", "1", "A", "B", "S", "Z", "a", "b", "k", "s", "u", "v", "z">>

Ord(c) == CHOOSE i \in 1..Len(Alphabet) : Alphabet[i] = c

IsSpace(c) == c = " "

CasefoldChar(c) ==
    CASE c = "A" -> "a"
      [] c = "B" -> "b"
      [] c = "S" -> "s"
      [] c = "Z" -> "z"
      [] OTHER -> c

\* str.casefold
Casefold(s) == [i \in 1..Len(s) |-> CasefoldChar(s[i])]

RECURSIVE LStrip(_)
LStrip(s) == IF s # <<>> /\ IsSpace(Head(s)) THEN LStrip(Tail(s)) ELSE s

RECURSIVE RStrip(_)
RStrip(s) ==
    IF s # <<>> /\ IsSpace(s[Len(s)]) THEN RStrip(SubSeq(s, 1, Len(s) - 1)) ELSE s

\* str.strip
Strip(s) == RStrip(LStrip(s))

\* needle in hay
Contains(needle, hay) ==
    \E i \in 0..(Len(hay) - Len(needle)) : SubSeq(hay, i + 1, i + Len(needle)) = needle

\* lexicographic order of two texts by code point: a < b
RECURSIVE StrLess(_, _)
StrLess(a, b) ==
    IF b = <<>> THEN FALSE
    ELSE IF a = <<>> THEN TRUE
    ELSE IF Head(a) # Head(b) THEN Ord(Head(a)) < Ord(Head(b))
    ELSE StrLess(Tail(a), Tail(b))

SeqsUpTo(S, n) == UNION {[1..k -> S] : k \in 0..n}

\* d[k] = v on a dict
DictSet(d, k, v) == [x \in (DOMAIN d) \cup {k} |-> IF x = k THEN v ELSE d[x]]

EmptyDict == [x \in {} |-> 0]

----------------------------------------------------------------------------
(* Configuration *)

GetenvNoStrip(name, default) ==
    LET v == env[name] IN IF v # None THEN v ELSE default

getenv(name, default) ==
    LET v == env[name] IN IF v # None /\ Strip(v) # <<>> THEN v ELSE default

\* "Stuttgart" and "Zeitarbeit", abbreviated to their initials
DefaultExcludeCity == <<"S">>
DefaultExcludeTerms == << <<"Z">> >>
DefaultSalaryMinYear == 54000

EnvValues == {None, <<>>, <<" ">>, <<"k">>}
Keywords == {"SEO", "TYPO3"}

\* The effective configuration of main(); the parameters no claim reads
\* (HOME_CITY, RADIUS_KM, RESULTS_PER_PAGE) are left out.  KEYWORDS and
\* ADZUNA_MAX_PAGES are taken as parse_list_semicolons and parse_int_flexible
\* return them: a list of stripped non-empty keywords, a number >= 0.
MakeCfg ==
    [ADZUNA_APP_ID    |-> getenv("ADZUNA_APP_ID", None),
     ADZUNA_APP_KEY   |-> getenv("ADZUNA_APP_KEY", None),
     EXCLUDE_CITY     |-> DefaultExcludeCity,
     SALARY_MIN_YEAR  |-> DefaultSalaryMinYear,
     KEYWORDS         |-> env.KEYWORDS,
     EXCLUDE_TERMS    |-> DefaultExcludeTerms,
     ADZUNA_MAX_PAGES |-> env.ADZUNA_MAX_PAGES]

----------------------------------------------------------------------------
(* Records *)

normalize(s) == Strip(IF Truthy(s) THEN s ELSE <<>>)

Raw(id, url, title, company, disp, area, desc, smin, smax) ==
    [id |-> id, redirect_url |-> url, title |-> title,
     company |-> [display_name |-> company],
     location |-> [display_name |-> disp, area |-> area],
     description |-> desc, salary_min |-> smin, salary_max |-> smax]

\* The records the provider may serve.  RecA and RecB share an identifier and
\* differ in content; RecC and RecD carry no identifier and differ in their
\* redirect URL; RecB alone has a location display name.
RecA == Raw(<<"1">>, <<"u">>, <<"a">>, <<"b">>, None, << <<"S">> >>, <<>>, NoneNum, 60000)
RecB == Raw(<<"1">>, <<"v">>, <<"B">>, <<"a">>, <<"A">>, <<>>, <<>>, 40000, NoneNum)
RecC == Raw(None, <<"u">>, <<" ", "a">>, <<"A">>, None, <<>>, <<"b">>, NoneNum, NoneNum)
RecD == Raw(None, <<"v">>, <<"z">>, <<"a">>, None, <<>>, <<"s">>, 0, 70000)
ProviderRecords == {RecA, RecB, RecC, RecD}

ProviderPages == SeqsUpTo(ProviderRecords, MaxPageLen) \ {<<>>}

extract_annual_salary(job) == <<job.salary_min, job.salary_max>>

MeetsMinSalaryTruthy(job, min_year) ==
    LET smin == extract_annual_salary(job)[1]
        smax == extract_annual_salary(job)[2]
        val  == IF smax # NoneNum /\ smax # 0 THEN smax ELSE smin
    IN  IF (smin = NoneNum \/ smin = 0) /\ (smax = NoneNum \/ smax = 0) THEN "None"
        ELSE IF val >= min_year THEN "True" ELSE "False"

\* The bounds are numbers (or None), so float() never raises.
meets_min_salary(job, min_year) ==
    LET smin == extract_annual_salary(job)[1]
        smax == extract_annual_salary(job)[2]
        val  == IF smax # NoneNum THEN smax ELSE smin
    IN  IF smin = NoneNum /\ smax = NoneNum THEN "None"
        ELSE IF val >= min_year THEN "True" ELSE "False"

\* The fields of the canonical record that the filter, the ranking and the
\* counts read; "location" is the display name, a text.
build_job_obj(raw, c) ==
    LET job == [id           |-> raw.id,
                title        |-> normalize(raw.title),
                company      |-> normalize(raw.company.display_name),
                location     |-> normalize(raw.location.display_name),
                areas        |-> raw.location.area,
                redirect_url |-> raw.redirect_url,
                description  |-> normalize(raw.description),
                salary_min   |-> extract_annual_salary(raw)[1],
                salary_max   |-> extract_annual_salary(raw)[2]]
    IN  [f \in (DOMAIN job) \cup {"meets_salary"} |->
            IF f = "meets_salary" THEN meets_min_salary(job, c.SALARY_MIN_YEAR)
            ELSE job[f]]

\* Called with the canonical record, whose "location" is a text: when that
\* text is non-empty, loc is a str and loc.get raises AttributeError; when it
\* is empty, loc is {} and neither a display name nor an area is found.
job_city_mentions_excluded(job, exclude_city) ==
    IF ~Truthy(exclude_city) THEN "False"
    ELSE IF Truthy(job.location) THEN "AttributeError"
    ELSE LET disp  == normalize(None)
             area  == <<>>
             city  == Casefold(exclude_city)
             title == normalize(job.title)
             desc  == normalize(job.description)
         IN  IF Contains(city, Casefold(disp)) THEN "True"
             ELSE IF \E i \in 1..Len(area) : Contains(city, Casefold(area[i])) THEN "True"
             ELSE IF Contains(city, Casefold(title)) \/ Contains(city, Casefold(desc))
                  THEN "True"
             ELSE "False"

\* [raised, ex, reason]: raised when the city check raises
should_exclude(job, c) ==
    LET city == IF Truthy(c.EXCLUDE_CITY)
                THEN job_city_mentions_excluded(job, c.EXCLUDE_CITY) ELSE "False"
        hay  == Casefold(job.title \o <<" ">> \o job.company \o <<" ">>
                         \o job.description)
        hits == {i \in 1..Len(c.EXCLUDE_TERMS) :
                    Contains(Casefold(c.EXCLUDE_TERMS[i]), hay)}
        first == CHOOSE i \in hits : \A k \in hits : i <= k
    IN  IF city = "AttributeError" THEN [raised |-> TRUE, ex |-> FALSE, reason |-> <<>>]
        ELSE IF city = "True"
             THEN [raised |-> FALSE, ex |-> TRUE, reason |-> <<"excluded_city">>]
        ELSE IF hits # {}
             THEN [raised |-> FALSE, ex |-> TRUE,
                   reason |-> <<"excluded_term:", c.EXCLUDE_TERMS[first]>>]
        ELSE [raised |-> FALSE, ex |-> FALSE, reason |-> <<>>]

RankJobTruthy(job) == IF job.meets_salary = "True" THEN 2 ELSE 0

rank_job(job) ==
    IF job.meets_salary = "True" THEN 2
    ELSE IF job.meets_salary = "None" THEN 1
    ELSE 0

SortKeyNoCasefold(j) == <<0 - rank_job(j), j.company, j.title>>

\* the key of the final sort
SortKey(j) == <<0 - rank_job(j), Casefold(j.company), Casefold(j.title)>>

\* tuple comparison k1 < k2
KeyLess(k1, k2) ==
    \/ k1[1] < k2[1]
    \/ k1[1] = k2[1] /\ StrLess(k1[2], k2[2])
    \/ k1[1] = k2[1] /\ k1[2] = k2[2] /\ StrLess(k1[3], k2[3])

\* list.sort is stable: a record goes behind every record whose key is not greater
RECURSIVE InsertSorted(_, _)
InsertSorted(s, j) ==
    IF s = <<>> THEN <<j>>
    ELSE IF KeyLess(SortKey(j), SortKey(Head(s))) THEN <<j>> \o s
    ELSE <<Head(s)>> \o InsertSorted(Tail(s), j)

RECURSIVE SortFrom(_, _)
SortFrom(done, rest) ==
    IF rest = <<>> THEN done ELSE SortFrom(InsertSorted(done, Head(rest)), Tail(rest))

SortKept(k) == SortFrom(<<>>, k)

----------------------------------------------------------------------------
(* The run of main() *)

\* the dedup key as the specification states it: the identifier if present,
\* else the redirect URL
ClaimKey(r) == IF r.id # None THEN r.id ELSE r.redirect_url

KeysOf(raws) == {ClaimKey(raws[i][2]) : i \in 1..Len(raws)}

\* the history after a page rs received for keyword kw
RECURSIVE FirstSeen(_, _, _)
FirstSeen(hist, rs, kw) ==
    IF rs = <<>> THEN hist
    ELSE FirstSeen(IF ClaimKey(Head(rs)) \in KeysOf(hist) THEN hist
                   ELSE Append(hist, <<kw, Head(rs)>>),
                   Tail(rs), kw)

DedupKeyIdOnly(r) == r.id

\* rid = r.get("id") or r.get("redirect_url")
DedupKey(r) == IF Truthy(r.id) THEN r.id ELSE r.redirect_url

\* for r in results: ...; acc = [seen, raw, total]
RECURSIVE DedupLoop(_, _, _)
DedupLoop(rs, kw, acc) ==
    IF rs = <<>> THEN acc
    ELSE LET r   == Head(rs)
             rid == DedupKey(r)
         IN  IF rid \in acc.seen THEN DedupLoop(Tail(rs), kw, acc)
             ELSE DedupLoop(Tail(rs), kw,
                            [seen  |-> acc.seen \cup {rid},
                             raw   |-> Append(acc.raw, <<kw, r>>),
                             total |-> acc.total + 1])

\* for kw, raw in all_raw: ...; acc = [raised, kept, excluded]
RECURSIVE FilterLoop(_, _, _)
FilterLoop(raws, c, acc) ==
    IF raws = <<>> THEN acc
    ELSE LET kw     == Head(raws)[1]
             job    == build_job_obj(Head(raws)[2], c)
             verdict == should_exclude(job, c)
             tagged == [f \in (DOMAIN job) \cup {"keyword"} |->
                          IF f = "keyword" THEN kw ELSE job[f]]
             marked == [f \in (DOMAIN tagged) \cup {"exclude_reason"} |->
                          IF f = "exclude_reason" THEN verdict.reason ELSE tagged[f]]
         IN  IF verdict.raised THEN [acc EXCEPT !.raised = TRUE]
             ELSE IF verdict.ex
                  THEN FilterLoop(Tail(raws), c,
                                  [acc EXCEPT !.excluded = Append(@, marked)])
             ELSE FilterLoop(Tail(raws), c, [acc EXCEPT !.kept = Append(@, tagged)])

\* Keywords are opaque names, so a list is taken up to renaming: its first
\* entry, if any, is "SEO"; a list may name the same keyword more than once.
KeywordLists == {k \in SeqsUpTo(Keywords, MaxKeywords) : k = <<>> \/ k[1] = "SEO"}

Envs ==
    [ADZUNA_APP_ID : EnvValues, ADZUNA_APP_KEY : EnvValues,
     KEYWORDS : KeywordLists, ADZUNA_MAX_PAGES : 0..MaxPages]

Idle ==
    /\ cfg = None
    /\ pc = "start"
    /\ kw_index = 1
    /\ page = 1
    /\ total_for_kw = 0
    /\ requests = <<>>
    /\ all_raw = <<>>
    /\ seen_ids = {}
    /\ per_keyword_count = EmptyDict
    /\ kept = <<>>
    /\ excluded = <<>>
    /\ fs = <<>>
    /\ output = None
    /\ first_seen = <<>>

Init ==
    /\ env \in Envs
    /\ Idle
    /\ probe = [stage |-> "off"]

\* main, lines 195-224: the configuration, the credential check, the empty lists
LoadConfig ==
    /\ pc = "start"
    /\ cfg' = MakeCfg
    /\ pc' = IF ~Truthy(MakeCfg.ADZUNA_APP_ID) \/ ~Truthy(MakeCfg.ADZUNA_APP_KEY)
             THEN "config_error" ELSE "fetch"
    /\ UNCHANGED <<env, kw_index, page, total_for_kw, requests, all_raw,
                   seen_ids, per_keyword_count, kept, excluded, fs, output,
                   first_seen, probe>>

InPageLoop ==
    /\ pc = "fetch"
    /\ kw_index <= Len(cfg.KEYWORDS)
    /\ page <= cfg.ADZUNA_MAX_PAGES

Issue(outcome) ==
    Append(requests, [kw_index |-> kw_index, what |-> cfg.KEYWORDS[kw_index],
                      page |-> page, outcome |-> outcome])

\* line 248 and the next turn of the outer loop
NextKeyword ==
    /\ per_keyword_count' =
           DictSet(per_keyword_count, cfg.KEYWORDS[kw_index], total_for_kw)
    /\ kw_index' = kw_index + 1
    /\ page' = 1
    /\ total_for_kw' = 0

RequestFailedAbort ==
    /\ InPageLoop
    /\ requests' = Issue("fail")
    /\ pc' = "crashed"
    /\ UNCHANGED <<env, cfg, kw_index, page, total_for_kw, all_raw, seen_ids,
                   per_keyword_count, kept, excluded, fs, output, first_seen, probe>>

\* fetch_adzuna_page raises (transport error, HTTP status, timeout): break
RequestFailed ==
    /\ InPageLoop
    /\ requests' = Issue("fail")
    /\ NextKeyword
    /\ UNCHANGED <<env, cfg, pc, all_raw, seen_ids, kept, excluded, fs, output,
                   first_seen, probe>>

RequestEmptyContinue ==
    /\ InPageLoop
    /\ requests' = Issue("empty")
    /\ page' = page + 1
    /\ UNCHANGED <<env, cfg, pc, kw_index, total_for_kw, all_raw, seen_ids,
                   per_keyword_count, kept, excluded, fs, output, first_seen, probe>>

\* the page holds no record: break
RequestEmpty ==
    /\ InPageLoop
    /\ requests' = Issue("empty")
    /\ NextKeyword
    /\ UNCHANGED <<env, cfg, pc, all_raw, seen_ids, kept, excluded, fs, output,
                   first_seen, probe>>

\* the page holds records: deduplicate them and go on to the next page
RequestResults ==
    /\ InPageLoop
    /\ \E rs \in ProviderPages :
          LET acc == DedupLoop(rs, cfg.KEYWORDS[kw_index],
                               [seen |-> seen_ids, raw |-> all_raw, total |-> total_for_kw])
          IN  /\ first_seen' = FirstSeen(first_seen, rs, cfg.KEYWORDS[kw_index])
              /\ seen_ids' = acc.seen
              /\ all_raw' = acc.raw
              /\ total_for_kw' = acc.total
    /\ requests' = Issue("results")
    /\ page' = page + 1
    /\ UNCHANGED <<env, cfg, pc, kw_index, per_keyword_count, kept, excluded, fs,
                   output, probe>>

\* range(1, ADZUNA_MAX_PAGES + 1) is exhausted
PagesExhausted ==
    /\ pc = "fetch"
    /\ kw_index <= Len(cfg.KEYWORDS)
    /\ page > cfg.ADZUNA_MAX_PAGES
    /\ NextKeyword
    /\ UNCHANGED <<env, cfg, pc, requests, all_raw, seen_ids, kept, excluded, fs,
                   output, first_seen, probe>>

\* lines 250-260; an exception of should_exclude ends the run
Filter ==
    /\ pc = "fetch"
    /\ kw_index > Len(cfg.KEYWORDS)
    /\ LET acc == FilterLoop(all_raw, cfg,
                             [raised |-> FALSE, kept |-> <<>>, excluded |-> <<>>])
       IN  IF acc.raised
           THEN pc' = "crashed" /\ UNCHANGED <<kept, excluded>>
           ELSE pc' = "sort" /\ kept' = acc.kept /\ excluded' = acc.excluded
    /\ UNCHANGED <<env, cfg, kw_index, page, total_for_kw, requests, all_raw,
                   seen_ids, per_keyword_count, fs, output, first_seen,
                   probe>>

\* line 262
Sort ==
    /\ pc = "sort"
    /\ kept' = SortKept(kept)
    /\ pc' = "write_json"
    /\ UNCHANGED <<env, cfg, kw_index, page, total_for_kw, requests, all_raw,
                   seen_ids, per_keyword_count, excluded, fs, output, first_seen,
                   probe>>

\* lines 264-285
WriteJson ==
    /\ pc = "write_json"
    /\ output' = [counts |-> [fetched_total |-> Len(all_raw),
                              kept          |-> Len(kept),
                              excluded      |-> Len(excluded),
                              per_keyword   |-> per_keyword_count],
                  jobs   |-> kept]
    /\ fs' = fs \o <<"site", "site/data", "site/data/jobs.json">>
    /\ pc' = "write_html"
    /\ UNCHANGED <<env, cfg, kw_index, page, total_for_kw, requests, all_raw,
                   seen_ids, per_keyword_count, kept, excluded, first_seen,
                   probe>>

\* lines 287-406
WriteHtml ==
    /\ pc = "write_html"
    /\ fs' = Append(fs, "site/index.html")
    /\ pc' = "done"
    /\ UNCHANGED <<env, cfg, kw_index, page, total_for_kw, requests, all_raw,
                   seen_ids, per_keyword_count, kept, excluded, output, first_seen,
                   probe>>

Next ==
    \/ LoadConfig
    \/ RequestFailed
    \/ RequestEmpty
    \/ RequestResults
    \/ PagesExhausted
    \/ Filter
    \/ Sort
    \/ WriteJson
    \/ WriteHtml

Spec == Init /\ [][Next]_vars

----------------------------------------------------------------------------
(* meets_min_salary and the final sort, applied on their own *)

NoEnv ==
    [ADZUNA_APP_ID |-> None, ADZUNA_APP_KEY |-> None, KEYWORDS |-> <<>>,
     ADZUNA_MAX_PAGES |-> 0]

SalaryValues == {NoneNum} \cup (0..MaxSalary)

SalaryInit ==
    /\ env = NoEnv
    /\ Idle
    /\ probe \in [stage : {"in"}, salary_min : SalaryValues, salary_max : SalaryValues,
                   min_year : 0..MaxSalary, meets_salary : {"unset"}]

\* build_job_obj, line 172
ApplyMeetsMinSalary ==
    /\ probe.stage = "in"
    /\ probe' = [probe EXCEPT
                   !.stage = "out",
                   !.meets_salary =
                       meets_min_salary([salary_min |-> probe.salary_min,
                                         salary_max |-> probe.salary_max],
                                        probe.min_year)]
    /\ UNCHANGED pipeline

SalaryNext == ApplyMeetsMinSalary

SalarySpec == SalaryInit /\ [][SalaryNext]_vars

\* kept records as the sort reads them: company, title, adequacy
SortJobs ==
    [company : {<<"a">>, <<"A">>, <<"b">>}, title : {<<"a">>, <<"B">>},
     meets_salary : {"True", "None", "False"}]

SortInit ==
    /\ env = NoEnv
    /\ Idle
    /\ probe \in [stage : {"in"}, kept : SeqsUpTo(SortJobs, MaxKept), sorted : {<<>>}]

\* main, line 262
ApplySort ==
    /\ probe.stage = "in"
    /\ probe' = [probe EXCEPT !.stage = "out", !.sorted = SortKept(probe.kept)]
    /\ UNCHANGED pipeline

SortNext == ApplySort

SortSpec == SortInit /\ [][SortNext]_vars

----------------------------------------------------------------------------
(* Claims *)

\* a credential that is absent, empty or whitespace only
Blank(v) == v = None \/ \A i \in 1..Len(v) : v[i] = " "

CredentialMissing == Blank(env.ADZUNA_APP_ID) \/ Blank(env.ADZUNA_APP_KEY)

Last(s) == s[Len(s)]

\* C1: when a credential is absent or blank the run ends in the configuration
\* error: no page is ever requested and no directory or file is ever written.
C1_MissingCredentialsAbort ==
    CredentialMissing =>
        /\ pc \in {"start", "config_error"}
        /\ requests = <<>>
        /\ fs = <<>>

C1_Witness ==
    /\ pc = "config_error"
    /\ env.ADZUNA_APP_ID = <<"k">>
    /\ env.ADZUNA_APP_KEY = <<" ">>

\* C2: with both credentials present no run ends in a fatal error: the only
\* fatal outcome of a run is the configuration error.
C2_OnlyConfigErrorIsFatal ==
    ~CredentialMissing => pc \notin {"config_error", "crashed"}

C3_NoDuplicateKey ==
    \A i, j \in 1..Len(all_raw) :
        i # j => ClaimKey(all_raw[i][2]) # ClaimKey(all_raw[j][2])

\* C3: the fetched list never holds two records with the same dedup key, and
\* it is, in fetch order, the first record returned with each dedup key the
\* provider has returned on any page of any keyword: a later record with a key
\* already returned is not retained, a record with a new key is never dropped.
C3_Dedup == C3_NoDuplicateKey /\ all_raw = first_seen

\* two pages of records were received for two keywords, and only the record
\* of the first was retained
C3_Witness ==
    /\ Len(requests) = 2
    /\ requests[1].outcome = "results" /\ requests[2].outcome = "results"
    /\ requests[2].kw_index = 2
    /\ all_raw = << <<cfg.KEYWORDS[1], RecA>> >>

C4_FailedStopsKeywordOnly ==
    \A i \in 1..Len(requests) :
        requests[i].outcome = "fail" =>
            /\ \A j \in (i + 1)..Len(requests) :
                  requests[j].kw_index > requests[i].kw_index
            /\ \A k \in (requests[i].kw_index + 1)..Len(cfg.KEYWORDS) :
                  kw_index > k =>
                      \E j \in (i + 1)..Len(requests) :
                          requests[j].kw_index = k /\ requests[j].page = 1

C4_FailStep ==
    (requests' # requests /\ Last(requests').outcome = "fail") =>
        /\ pc' = "fetch"
        /\ all_raw' = all_raw

\* C4: after a failed request for a keyword no further page of that keyword is
\* requested, every later keyword is requested from page 1, and the failure
\* neither ends the run nor changes the fetched list.
C4_FailedRequest == [](C4_FailedStopsKeywordOnly) /\ [][C4_FailStep]_vars

C4_Witness ==
    /\ Len(requests) = 3
    /\ requests[1].outcome = "results"
    /\ requests[2].outcome = "fail" /\ requests[2].page = 2
    /\ requests[3].kw_index = 2 /\ requests[3].page = 1
    /\ all_raw # <<>>
    /\ pc = "fetch"

\* the city rule as the claim states it, on the record the provider returned
ClaimCityMatches(r, city) ==
    \/ r.location.display_name # None
         /\ Contains(Casefold(city), Casefold(r.location.display_name))
    \/ \E i \in 1..Len(r.location.area) :
         Contains(Casefold(city), Casefold(r.location.area[i]))
    \/ Contains(Casefold(city), Casefold(r.title))
    \/ Contains(Casefold(city), Casefold(r.description))

\* C5: in a finished run a fetched record is excluded with the reason
\* excluded_city exactly when the exclusion city occurs in its location
\* display name, in one of its area names, in its title or in its description.
C5_CityExclusion ==
    pc \in {"sort", "write_json", "write_html", "done"} =>
        \A i \in 1..Len(all_raw) :
            ClaimCityMatches(all_raw[i][2], cfg.EXCLUDE_CITY) <=>
                \E e \in 1..Len(excluded) :
                    /\ ClaimKey(excluded[e]) = ClaimKey(all_raw[i][2])
                    /\ excluded[e].exclude_reason = <<"excluded_city">>

ClaimTier(j) ==
    CASE j.meets_salary = "True" -> 2
      [] j.meets_salary = "None" -> 1
      [] j.meets_salary = "False" -> 0

StrLE(a, b) == a = b \/ StrLess(a, b)

\* (company, title), compared case-insensitively: a <= b
ClaimNameLE(a, b) ==
    \/ StrLess(Casefold(a.company), Casefold(b.company))
    \/ /\ Casefold(a.company) = Casefold(b.company)
       /\ StrLE(Casefold(a.title), Casefold(b.title))

ClaimKeyEq(a, b) ==
    /\ ClaimTier(a) = ClaimTier(b)
    /\ Casefold(a.company) = Casefold(b.company)
    /\ Casefold(a.title) = Casefold(b.title)

ClaimKeyLE(a, b) ==
    \/ ClaimTier(a) > ClaimTier(b)
    \/ ClaimTier(a) = ClaimTier(b) /\ ClaimNameLE(a, b)

SameKeyAs(s, a) == SelectSeq(s, LAMBDA j : ClaimKeyEq(j, a))

\* C7: in the sorted list every record's key (tier descending, company and
\* title case-insensitively ascending) is at most its successor's, and the
\* records equal on all three keys are the same records in their order before
\* the sort.
C7_FinalOrdering ==
    probe.stage = "out" =>
        /\ Len(probe.sorted) = Len(probe.kept)
        /\ \A i \in 1..(Len(probe.sorted) - 1) :
              ClaimKeyLE(probe.sorted[i], probe.sorted[i + 1])
        /\ \A a \in SortJobs : SameKeyAs(probe.sorted, a) = SameKeyAs(probe.kept, a)

C7_Witness ==
    /\ probe.stage = "out"
    /\ Len(probe.kept) = 3
    /\ probe.kept[1].company = <<"a">> /\ probe.kept[2].company = <<"A">>
    /\ ClaimKeyEq(probe.kept[1], probe.kept[2])
    /\ ClaimTier(probe.kept[3]) > ClaimTier(probe.kept[1])
    /\ probe.sorted = <<probe.kept[3], probe.kept[1], probe.kept[2]>>

TiesOrdered(s) ==
    \A i, j \in 1..Len(s) :
        (i < j /\ ClaimTier(s[i]) = ClaimTier(s[j])) => ClaimNameLE(s[i], s[j])

\* C8 as stated: no record of tier 1 stands before a record of tier 0, and
\* within a tier the records are ordered by company, then title.
C8_Original ==
    probe.stage = "out" =>
        /\ \A i, j \in 1..Len(probe.sorted) :
              i < j => ~(ClaimTier(probe.sorted[i]) = 1 /\ ClaimTier(probe.sorted[j]) = 0)
        /\ TiesOrdered(probe.sorted)

\* C8, amended: no record of tier 0 stands before a record of tier 1, and
\* within a tier the records are ordered by company, then title, compared
\* case-insensitively.
C8_Ranking ==
    probe.stage = "out" =>
        /\ \A i, j \in 1..Len(probe.sorted) :
              i < j => ~(ClaimTier(probe.sorted[i]) = 0 /\ ClaimTier(probe.sorted[j]) = 1)
        /\ TiesOrdered(probe.sorted)

C8_Witness ==
    /\ probe.stage = "out"
    /\ Len(probe.kept) = 2
    /\ ClaimTier(probe.kept[1]) = 0 /\ ClaimTier(probe.kept[2]) = 1
    /\ probe.sorted = <<probe.kept[2], probe.kept[1]>>

\* C9: the requests of one pass over a keyword are its pages 1, 2, ..., k in
\* order, k at most the configured maximum; nothing follows an empty page of
\* that pass; the passes follow each other in configuration order.
C9_Pagination ==
    \A i \in 1..Len(requests) :
        /\ requests[i].kw_index \in 1..Len(cfg.KEYWORDS)
        /\ requests[i].what = cfg.KEYWORDS[requests[i].kw_index]
        /\ requests[i].page \in 1..cfg.ADZUNA_MAX_PAGES
        /\ IF i > 1 /\ requests[i - 1].kw_index = requests[i].kw_index
           THEN /\ requests[i].page = requests[i - 1].page + 1
                /\ requests[i - 1].outcome = "results"
           ELSE requests[i].page = 1
        /\ \A j \in (i + 1)..Len(requests) :
              /\ requests[j].kw_index >= requests[i].kw_index
              /\ requests[i].outcome = "empty" =>
                    requests[j].kw_index > requests[i].kw_index

C9_Witness ==
    /\ Len(requests) = 4
    /\ requests[1].outcome = "results"
    /\ requests[2].outcome = "empty" /\ requests[2].page = 2
    /\ requests[3].kw_index = 2 /\ requests[3].page = 1
    /\ requests[4].kw_index = 2 /\ requests[4].page = 2

RECURSIVE SumOver(_, _)
SumOver(d, keys) ==
    IF keys = {} THEN 0
    ELSE LET k == CHOOSE x \in keys : TRUE IN d[k] + SumOver(d, keys \ {k})

\* C10: in the written document the per-keyword counts add up to
\* fetched_total, fetched_total is kept plus excluded, and kept is the number
\* of jobs.
C10_CountsConsistent ==
    pc \in {"write_html", "done"} =>
        /\ SumOver(output.counts.per_keyword, DOMAIN output.counts.per_keyword)
               = output.counts.fetched_total
        /\ output.counts.fetched_total = output.counts.kept + output.counts.excluded
        /\ output.counts.kept = Len(output.jobs)

====
